---- MODULE Spec2Model ----
(***************************************************************************)
(* SimpleDataServer: the document store (FileManager), the request         *)
(* handlers (ApiHandler) and the chunked body ingestion of DataServer.     *)
(*                                                                         *)
(* A string is a sequence of one-character strings ("NUL" stands for the   *)
(* byte 0).  A text (a request body, a file's content, a response body) is *)
(* a sequence of JSON tokens; a string token may carry a run of `pad'      *)
(* further 'x' characters, so that texts of a megabyte stay small values   *)
(* while their byte size is computed exactly.                              *)
(***************************************************************************)
EXTENDS Integers, Sequences, FiniteSets, TLC

VARIABLES
    dirs,       \* the directories of the filesystem (normalised paths)
    files,      \* the regular files: normalised path -> content (a text)
    op,         \* the last FileManager call: its name and its error
    lastput,    \* history: file -> arguments of the last put_json that wrote it
    san,        \* the last filename resolution: raw name, sanitized name, path
    req         \* the HTTP request being served by DataServer

vars == <<dirs, files, op, lastput, san, req>>

(***************************************************************************)
(* Bounds of the model.                                                    *)
(***************************************************************************)
\* longest raw filename enumerated for sanitize_filename
MaxNameLen == 4
\* most regular files put_json adds to the initial ones
MaxFiles == 3
\* requests in flight at once
MaxInFlight == 2
\* tokens of a body the transport delivers in one chunk
MaxChunk == 6

(***************************************************************************)
(* Characters and strings.                                                 *)
(***************************************************************************)
Ascii ==
    ("NUL" :> 0) @@ (" " :> 32) @@ ("!" :> 33) @@ ("\"" :> 34) @@
    ("'" :> 39) @@ ("(" :> 40) @@ (")" :> 41) @@ ("-" :> 45) @@
    ("." :> 46) @@ ("/" :> 47) @@ ("0" :> 48) @@ ("1" :> 49) @@
    ("2" :> 50) @@ ("3" :> 51) @@ ("4" :> 52) @@ ("5" :> 53) @@
    ("6" :> 54) @@ ("7" :> 55) @@ ("8" :> 56) @@ ("9" :> 57) @@
    ("A" :> 65) @@ ("B" :> 66) @@ ("C" :> 67) @@ ("D" :> 68) @@
    ("E" :> 69) @@ ("F" :> 70) @@ ("G" :> 71) @@ ("H" :> 72) @@
    ("I" :> 73) @@ ("J" :> 74) @@ ("K" :> 75) @@ ("L" :> 76) @@
    ("M" :> 77) @@ ("N" :> 78) @@ ("O" :> 79) @@ ("P" :> 80) @@
    ("Q" :> 81) @@ ("R" :> 82) @@ ("S" :> 83) @@ ("T" :> 84) @@
    ("U" :> 85) @@ ("V" :> 86) @@ ("W" :> 87) @@ ("X" :> 88) @@
    ("Y" :> 89) @@ ("Z" :> 90) @@ ("\\" :> 92) @@ ("_" :> 95) @@
    ("a" :> 97) @@ ("b" :> 98) @@ ("c" :> 99) @@ ("d" :> 100) @@
    ("e" :> 101) @@ ("f" :> 102) @@ ("g" :> 103) @@ ("h" :> 104) @@
    ("i" :> 105) @@ ("j" :> 106) @@ ("k" :> 107) @@ ("l" :> 108) @@
    ("m" :> 109) @@ ("n" :> 110) @@ ("o" :> 111) @@ ("p" :> 112) @@
    ("q" :> 113) @@ ("r" :> 114) @@ ("s" :> 115) @@ ("t" :> 116) @@
    ("u" :> 117) @@ ("v" :> 118) @@ ("w" :> 119) @@ ("x" :> 120) @@
    ("y" :> 121) @@ ("z" :> 122)

\* std::string's operator<: lexicographic on the bytes (std::sort of
\* list_files, and the member order of nlohmann's std::map objects)
RECURSIVE StrLess(_, _)
StrLess(a, b) ==
    IF b = <<>> THEN FALSE
    ELSE IF a = <<>> THEN TRUE
    ELSE IF Ascii[Head(a)] # Ascii[Head(b)] THEN Ascii[Head(a)] < Ascii[Head(b)]
    ELSE StrLess(Tail(a), Tail(b))

\* the strings of `set' in ascending order
RECURSIVE SortStrings(_)
SortStrings(set) ==
    IF set = {} THEN <<>>
    ELSE LET least == CHOOSE s \in set : \A u \in set \ {s} : StrLess(s, u)
         IN  <<least>> \o SortStrings(set \ {least})

\* all strings over `chars' of length at most n
RECURSIVE StringsUpTo(_, _)
StringsUpTo(chars, n) ==
    IF n = 0 THEN {<<>>}
    ELSE LET shorter == StringsUpTo(chars, n - 1)
         IN  shorter \cup {Append(s, c) : s \in shorter, c \in chars}

HasSuffix(s, suffix) ==
    /\ Len(s) >= Len(suffix)
    /\ SubSeq(s, Len(s) - Len(suffix) + 1, Len(s)) = suffix

JSON_EXTENSION == <<".", "j", "s", "o", "n">>
DEFAULT_DATA_DIR == <<"d", "a", "t", "a">>
MAX_JSON_SIZE_BYTES == 1048576
MAX_REQUEST_SIZE == 1048576

(***************************************************************************)
(* FileManager: filename sanitization and path construction.               *)
(***************************************************************************)
IsAlnum(c) ==
    LET b == Ascii[c]
    IN  \/ 48 <= b /\ b <= 57
        \/ 65 <= b /\ b <= 90
        \/ 97 <= b /\ b <= 122

is_valid_json_character(c) == IsAlnum(c) \/ c = "_" \/ c = "-"

\* the for loop of sanitize_filename, from character i on
RECURSIVE SanitizeLoop(_, _, _)
SanitizeLoop(filename, i, result) ==
    IF i > Len(filename) THEN result
    ELSE LET c == filename[i] IN
         IF c = "/" \/ c = "\\" \/ c = "NUL"
         THEN SanitizeLoop(filename, i + 1, result)
         ELSE IF c = "." /\ result # <<>> /\ result[Len(result)] = "."
         THEN SanitizeLoop(filename, i + 1, result)
         ELSE IF c = "."
         THEN SanitizeLoop(filename, i + 1, Append(result, "_"))
         ELSE IF is_valid_json_character(c)
         THEN SanitizeLoop(filename, i + 1, Append(result, c))
         ELSE SanitizeLoop(filename, i + 1, result)

\* the while loop of sanitize_filename
RECURSIVE StripTrailing(_)
StripTrailing(result) ==
    IF result # <<>> /\ (result[Len(result)] = "_" \/ result[Len(result)] = "-")
    THEN StripTrailing(SubSeq(result, 1, Len(result) - 1))
    ELSE result

sanitize_filename_unfiltered(filename) == StripTrailing(filename)
sanitize_filename(filename) == StripTrailing(SanitizeLoop(filename, 1, <<>>))

ensure_json_extension(filename) ==
    IF HasSuffix(filename, JSON_EXTENSION) THEN filename
    ELSE filename \o JSON_EXTENSION

data_directory_ == DEFAULT_DATA_DIR

get_key_directory(key) == data_directory_ \o <<"/">> \o key

get_file_path(key, filename) == get_key_directory(key) \o <<"/">> \o filename

\* the path put_json and get_json open for (key, filename)
ResolvedFilePath(key, filename) ==
    get_file_path(key, ensure_json_extension(sanitize_filename(filename)))

(***************************************************************************)
(* The filesystem under std::filesystem and the fstreams.  A node is the   *)
(* sequence of the names from the root to it; relative paths start at the  *)
(* working directory of the process.                                       *)
(***************************************************************************)
Cwd == << <<"s", "r", "v">> >>

Parent(node) == IF node = <<>> THEN <<>> ELSE SubSeq(node, 1, Len(node) - 1)

\* the components of a path, split at '/'
RECURSIVE SplitFrom(_, _, _)
SplitFrom(path, i, cur) ==
    IF i > Len(path) THEN <<cur>>
    ELSE IF path[i] = "/" THEN <<cur>> \o SplitFrom(path, i + 1, <<>>)
    ELSE SplitFrom(path, i + 1, Append(cur, path[i]))

SplitPath(path) == SplitFrom(path, 1, <<>>)

\* path lookup: every component is looked up in a directory
RECURSIVE Walk(_, _, _, _)
Walk(d, comps, i, at) ==
    IF i > Len(comps) THEN [ok |-> TRUE, node |-> at]
    ELSE IF at \notin d THEN [ok |-> FALSE, node |-> at]
    ELSE LET c == comps[i] IN
         IF c = <<>> \/ c = <<".">> THEN Walk(d, comps, i + 1, at)
         ELSE IF c = <<".", ".">> THEN Walk(d, comps, i + 1, Parent(at))
         ELSE Walk(d, comps, i + 1, Append(at, c))

Resolve(d, path) == Walk(d, SplitPath(path), 1, Cwd)

\* std::filesystem::exists
fs_exists(d, f, path) ==
    LET r == Resolve(d, path)
    IN  r.ok /\ (r.node \in d \/ r.node \in DOMAIN f)

\* std::filesystem::is_directory
fs_is_directory(d, path) ==
    LET r == Resolve(d, path)
    IN  r.ok /\ r.node \in d

CanOpenForWriteOverDirectory(d, path) == Resolve(d, path).ok
\* whether an fstream on the path can be opened for writing
CanOpenForWrite(d, path) ==
    LET r == Resolve(d, path)
    IN  r.ok /\ r.node \notin d /\ r.node # <<>>

\* the regular files directly inside directory `node', by name
EntriesOf(f, node) ==
    {n[Len(n)] : n \in {m \in DOMAIN f : m # <<>> /\ Parent(m) = node}}

(***************************************************************************)
(* JSON (nlohmann::json): values, dump() and parse().                      *)
(***************************************************************************)
JNull == [t |-> "null"]
JBool(b) == [t |-> "bool", b |-> b]
JInt(n) == [t |-> "num", f |-> "int", n |-> n]
JFloat(n) == [t |-> "num", f |-> "float", n |-> n]
JStr(s, pad) == [t |-> "str", s |-> s, pad |-> pad]
JArr(a) == [t |-> "arr", a |-> a]
JObj(o) == [t |-> "obj", o |-> o]

\* tokens of a JSON text
Punct(c) == [k |-> "p", c |-> c, s |-> <<>>, pad |-> 0]
Word(c) == [k |-> "lit", c |-> c, s |-> <<>>, pad |-> 0]
NumTok(c) == [k |-> "num", c |-> c, s |-> <<>>, pad |-> 0]
StrTok(s, pad) == [k |-> "str", c |-> "", s |-> s, pad |-> pad]

\* number lexemes the parser accepts, with the value each denotes
NumLex ==
    ("0" :> JInt(0)) @@ ("-0" :> JInt(0)) @@ ("1" :> JInt(1)) @@
    ("1.0" :> JFloat(1)) @@ ("1e2" :> JFloat(100)) @@ ("100.0" :> JFloat(100))

\* the lexeme dump() writes for a number
NumText(v) ==
    IF v.f = "int" THEN (IF v.n = 0 THEN "0" ELSE "1")
    ELSE (IF v.n = 1 THEN "1.0" ELSE "100.0")

\* bytes of one character inside a dumped string (escapes included)
CharWidth(c) ==
    IF c = "\"" \/ c = "\\" THEN 2
    ELSE IF c = "NUL" THEN 6
    ELSE 1

RECURSIVE StrWidth(_)
StrWidth(s) == IF s = <<>> THEN 0 ELSE CharWidth(Head(s)) + StrWidth(Tail(s))

TokWidth(tok) ==
    IF tok.k = "str" THEN 2 + StrWidth(tok.s) + tok.pad ELSE Len(tok.c)

\* std::string::size of a text
RECURSIVE TextSize(_)
TextSize(text) ==
    IF text = <<>> THEN 0 ELSE TokWidth(Head(text)) + TextSize(Tail(text))

RECURSIVE Dump(_), DumpElems(_, _), DumpMembers(_, _, _)
\* basic_json::dump(): compact, members in key order
Dump(v) ==
    CASE v.t = "null" -> <<Word("null")>>
      [] v.t = "bool" -> <<Word(IF v.b THEN "true" ELSE "false")>>
      [] v.t = "num" -> <<NumTok(NumText(v))>>
      [] v.t = "str" -> <<StrTok(v.s, v.pad)>>
      [] v.t = "arr" -> <<Punct("[")>> \o DumpElems(v.a, 1) \o <<Punct("]")>>
      [] v.t = "obj" ->
            <<Punct("{")>> \o DumpMembers(v.o, SortStrings(DOMAIN v.o), 1)
                \o <<Punct("}")>>

DumpElems(a, i) ==
    IF i > Len(a) THEN <<>>
    ELSE (IF i > 1 THEN <<Punct(",")>> ELSE <<>>) \o Dump(a[i])
            \o DumpElems(a, i + 1)

DumpMembers(o, keys, i) ==
    IF i > Len(keys) THEN <<>>
    ELSE (IF i > 1 THEN <<Punct(",")>> ELSE <<>>)
            \o <<StrTok(keys[i], 0), Punct(":")>> \o Dump(o[keys[i]])
            \o DumpMembers(o, keys, i + 1)

ParseFail == [ok |-> FALSE]

\* o with member k set to v (a later duplicate member replaces an earlier)
WithMember(o, k, v) == [x \in DOMAIN o \cup {k} |-> IF x = k THEN v ELSE o[x]]

RECURSIVE ParseValue(_, _), ParseElems(_, _, _), ParseMembers(_, _, _)
\* one value starting at token i: the value and the index after it
ParseValue(text, i) ==
    IF i > Len(text) THEN ParseFail
    ELSE LET tok == text[i] IN
         CASE tok.k = "lit" ->
                IF tok.c = "null" THEN [ok |-> TRUE, v |-> JNull, i |-> i + 1]
                ELSE IF tok.c = "true"
                THEN [ok |-> TRUE, v |-> JBool(TRUE), i |-> i + 1]
                ELSE IF tok.c = "false"
                THEN [ok |-> TRUE, v |-> JBool(FALSE), i |-> i + 1]
                ELSE ParseFail
           [] tok.k = "num" ->
                IF tok.c \in DOMAIN NumLex
                THEN [ok |-> TRUE, v |-> NumLex[tok.c], i |-> i + 1]
                ELSE ParseFail
           [] tok.k = "str" ->
                [ok |-> TRUE, v |-> JStr(tok.s, tok.pad), i |-> i + 1]
           [] tok = Punct("[") ->
                IF i + 1 <= Len(text) /\ text[i + 1] = Punct("]")
                THEN [ok |-> TRUE, v |-> JArr(<<>>), i |-> i + 2]
                ELSE ParseElems(text, i + 1, <<>>)
           [] tok = Punct("{") ->
                IF i + 1 <= Len(text) /\ text[i + 1] = Punct("}")
                THEN [ok |-> TRUE, v |-> JObj(<<>>), i |-> i + 2]
                ELSE ParseMembers(text, i + 1, <<>>)
           [] OTHER -> ParseFail

ParseElems(text, i, acc) ==
    LET r == ParseValue(text, i) IN
    IF ~r.ok \/ r.i > Len(text) THEN ParseFail
    ELSE IF text[r.i] = Punct(",")
    THEN ParseElems(text, r.i + 1, Append(acc, r.v))
    ELSE IF text[r.i] = Punct("]")
    THEN [ok |-> TRUE, v |-> JArr(Append(acc, r.v)), i |-> r.i + 1]
    ELSE ParseFail

ParseMembers(text, i, acc) ==
    IF i + 1 > Len(text) \/ text[i].k # "str" \/ text[i + 1] # Punct(":")
    THEN ParseFail
    ELSE LET r == ParseValue(text, i + 2) IN
         IF ~r.ok \/ r.i > Len(text) THEN ParseFail
         ELSE IF text[r.i] = Punct(",")
         THEN ParseMembers(text, r.i + 1, WithMember(acc, text[i].s, r.v))
         ELSE IF text[r.i] = Punct("}")
         THEN [ok |-> TRUE, v |-> JObj(WithMember(acc, text[i].s, r.v)),
               i |-> r.i + 1]
         ELSE ParseFail

\* basic_json::parse(): the whole text must be one value
Parse(text) ==
    LET r == ParseValue(text, 1)
    IN  IF r.ok /\ r.i = Len(text) + 1 THEN [ok |-> TRUE, v |-> r.v]
        ELSE ParseFail

(***************************************************************************)
(* FileManager: put_json, get_json, list_files.  `io' is what the          *)
(* environment does to the stream of this call: "ok", "open_fails",        *)
(* "write_fails" (put) or "iter_fails" (list).                             *)
(***************************************************************************)
NoPath == <<>>

key_directory_exists(d, f, key) ==
    LET key_dir == get_key_directory(key)
    IN  fs_exists(d, f, key_dir) /\ fs_is_directory(d, key_dir)

\* result of a FileManager call: the error ("none" on success), the files
\* afterwards, the value or listing returned, and the file path it probed
\* (std::filesystem::exists), opened and wrote
StoreResult(err, f, val, list, probed, opened, wrote) ==
    [err |-> err, files |-> f, val |-> val, list |-> list,
     probed |-> probed, opened |-> opened, wrote |-> wrote]

StoreError(err, f) == StoreResult(err, f, JNull, <<>>, NoPath, NoPath, NoPath)

\* put_json's check of the serialized document
JsonStringTooLarge(json_string) == TextSize(json_string) > MAX_JSON_SIZE_BYTES

ContentTooLargeOffByOne(content) == TextSize(content) >= MAX_JSON_SIZE_BYTES
\* get_json's check of the content read
ContentTooLarge(content) == TextSize(content) > MAX_JSON_SIZE_BYTES

WithFileKeepExisting(f, node, content) ==
    [x \in DOMAIN f \cup {node} |->
        IF x \in DOMAIN f THEN f[x] ELSE content]
WithFileAppending(f, node, content) ==
    [x \in DOMAIN f \cup {node} |->
        IF x = node
        THEN (IF node \in DOMAIN f THEN f[node] ELSE <<>>) \o content
        ELSE f[x]]
\* the files after `content' was written to the file at node
WithFile(f, node, content) ==
    [x \in DOMAIN f \cup {node} |-> IF x = node THEN content ELSE f[x]]

PutAtOpenFirst(d, f, file_path, json_string, io) ==
    IF io = "open_fails" \/ ~CanOpenForWrite(d, file_path)
    THEN StoreResult("IoError", f, JNull, <<>>, NoPath, file_path, NoPath)
    ELSE IF JsonStringTooLarge(json_string)
    THEN StoreResult("FileTooLarge",
                     WithFile(f, Resolve(d, file_path).node, <<>>),
                     JNull, <<>>, NoPath, file_path, NoPath)
    ELSE IF io = "write_fails"
    THEN StoreResult("IoError", WithFile(f, Resolve(d, file_path).node, <<>>),
                     JNull, <<>>, NoPath, file_path, file_path)
    ELSE StoreResult("none", WithFile(f, Resolve(d, file_path).node, json_string),
                     JNull, <<>>, NoPath, file_path, file_path)
\* put_json from the size check on: file_path is resolved, json_string is
\* data.dump()
PutAt(d, f, file_path, json_string, io) ==
    IF JsonStringTooLarge(json_string)
    THEN StoreError("FileTooLarge", f)
    ELSE IF io = "open_fails" \/ ~CanOpenForWrite(d, file_path)
    THEN StoreResult("IoError", f, JNull, <<>>, NoPath, file_path, NoPath)
    ELSE IF io = "write_fails"
    THEN StoreResult("IoError", WithFile(f, Resolve(d, file_path).node, <<>>),
                     JNull, <<>>, NoPath, file_path, file_path)
    ELSE StoreResult("none", WithFile(f, Resolve(d, file_path).node, json_string),
                     JNull, <<>>, NoPath, file_path, file_path)

\* put_json from the check of the sanitized filename on
PutSanitized(d, f, key, sanitized_filename, data, io) ==
    IF sanitized_filename = <<>> THEN StoreError("InvalidFilename", f)
    ELSE PutAt(d, f,
               get_file_path(key, ensure_json_extension(sanitized_filename)),
               Dump(data), io)

put_json(d, f, key, filename, data, io) ==
    IF key = <<>> THEN StoreError("InvalidFilename", f)
    ELSE IF ~key_directory_exists(d, f, key)
    THEN StoreError("KeyDirectoryNotFound", f)
    ELSE PutSanitized(d, f, key, sanitize_filename(filename), data, io)

GetContentParseFirst(f, file_path, content, io) ==
    IF ~Parse(content).ok
    THEN StoreResult("InvalidJson", f, JNull, <<>>, file_path, file_path, NoPath)
    ELSE IF ContentTooLarge(content)
    THEN StoreResult("FileTooLarge", f, JNull, <<>>, file_path, file_path, NoPath)
    ELSE StoreResult("none", f, Parse(content).v, <<>>, file_path, file_path,
                     NoPath)
\* get_json once the content was read: the size check and the parse
GetContent(f, file_path, content, io) ==
    IF ContentTooLarge(content)
    THEN StoreResult("FileTooLarge", f, JNull, <<>>, file_path, file_path, NoPath)
    ELSE IF ~Parse(content).ok
    THEN StoreResult("InvalidJson", f, JNull, <<>>, file_path, file_path, NoPath)
    ELSE StoreResult("none", f, Parse(content).v, <<>>, file_path, file_path,
                     NoPath)

\* get_json from the existence check on: file_path is resolved
GetAt(d, f, file_path, io) ==
    IF ~fs_exists(d, f, file_path)
    THEN StoreResult("FileNotFound", f, JNull, <<>>, file_path, NoPath, NoPath)
    ELSE IF io = "open_fails"
    THEN StoreResult("IoError", f, JNull, <<>>, file_path, file_path, NoPath)
    ELSE GetContent(f, file_path,
                    IF Resolve(d, file_path).node \in DOMAIN f
                    THEN f[Resolve(d, file_path).node] ELSE <<>>,
                    io)

get_json(d, f, key, filename, io) ==
    IF key = <<>> \/ filename = <<>> THEN StoreError("InvalidFilename", f)
    ELSE IF ~key_directory_exists(d, f, key)
    THEN StoreError("KeyDirectoryNotFound", f)
    ELSE GetAt(d, f,
               get_file_path(key,
                   ensure_json_extension(sanitize_filename(filename))),
               io)

RECURSIVE Reverse(_)
Reverse(s) == IF s = <<>> THEN <<>> ELSE Append(Reverse(Tail(s)), Head(s))

list_files_descending(d, f, key, io) ==
    IF key = <<>> \/ ~key_directory_exists(d, f, key)
    THEN StoreError("KeyDirectoryNotFound", f)
    ELSE StoreResult("none", f, JNull,
            Reverse(SortStrings(
                {n \in EntriesOf(f, Resolve(d, get_key_directory(key)).node) :
                    HasSuffix(n, JSON_EXTENSION)})),
            NoPath, NoPath, NoPath)

list_files(d, f, key, io) ==
    IF key = <<>> THEN StoreError("InvalidFilename", f)
    ELSE IF ~key_directory_exists(d, f, key)
    THEN StoreError("KeyDirectoryNotFound", f)
    ELSE LET key_dir == get_key_directory(key)
             found == {n \in EntriesOf(f, Resolve(d, key_dir).node) :
                            HasSuffix(n, JSON_EXTENSION)}
         IN
    IF io = "iter_fails" THEN StoreError("IoError", f)
    ELSE StoreResult("none", f, JNull, SortStrings(found), NoPath, NoPath, NoPath)

(***************************************************************************)
(* ApiHandler: handle_put, handle_get, handle_list.                        *)
(***************************************************************************)
MsgSuccess == <<"s", "u", "c", "c", "e", "s", "s">>
MsgInvalidJSON ==
    <<"I", "n", "v", "a", "l", "i", "d", " ", "J", "S", "O", "N">>
MsgBadKey ==
    <<"M", "i", "s", "s", "i", "n", "g", " ", "o", "r", " ", "i", "n", "v",
      "a", "l", "i", "d", " ", "'", "k", "e", "y", "'", " ", "f", "i", "e",
      "l", "d">>
MsgBadFilename ==
    <<"M", "i", "s", "s", "i", "n", "g", " ", "o", "r", " ", "i", "n", "v",
      "a", "l", "i", "d", " ", "'", "f", "i", "l", "e", "n", "a", "m", "e",
      "'", " ", "f", "i", "e", "l", "d">>
MsgNoData ==
    <<"M", "i", "s", "s", "i", "n", "g", " ", "'", "d", "a", "t", "a", "'",
      " ", "f", "i", "e", "l", "d">>
MsgKeyDirectoryNotFound ==
    <<"K", "e", "y", " ", "d", "i", "r", "e", "c", "t", "o", "r", "y", " ",
      "n", "o", "t", " ", "f", "o", "u", "n", "d">>
MsgFileNotFound ==
    <<"F", "i", "l", "e", " ", "n", "o", "t", " ", "f", "o", "u", "n", "d">>
MsgInvalidJson ==
    <<"I", "n", "v", "a", "l", "i", "d", " ", "J", "S", "O", "N", " ", "d",
      "a", "t", "a">>
MsgFileTooLarge ==
    <<"F", "i", "l", "e", " ", "e", "x", "c", "e", "e", "d", "s", " ", "m",
      "a", "x", "i", "m", "u", "m", " ", "s", "i", "z", "e", " ", "(", "1",
      "M", "B", ")">>
MsgInvalidFilename ==
    <<"I", "n", "v", "a", "l", "i", "d", " ", "f", "i", "l", "e", "n", "a",
      "m", "e">>
MsgIoError ==
    <<"F", "i", "l", "e", " ", "I", "/", "O", " ", "e", "r", "r", "o", "r">>
MsgJsonEncodingError ==
    <<"J", "S", "O", "N", " ", "e", "n", "c", "o", "d", "i", "n", "g", " ",
      "e", "r", "r", "o", "r">>
MsgUnknown ==
    <<"U", "n", "k", "n", "o", "w", "n", " ", "e", "r", "r", "o", "r">>
MsgTooLarge ==
    <<"R", "e", "q", "u", "e", "s", "t", " ", "b", "o", "d", "y", " ", "t",
      "o", "o", " ", "l", "a", "r", "g", "e">>
NameKey == <<"k", "e", "y">>
NameFilename == <<"f", "i", "l", "e", "n", "a", "m", "e">>
NameData == <<"d", "a", "t", "a">>
NameStatus == <<"s", "t", "a", "t", "u", "s">>
NameFiles == <<"f", "i", "l", "e", "s">>
NameError == <<"e", "r", "r", "o", "r">>

\* the characters of a JSON string value
StringOf(v) == v.s \o [i \in 1..v.pad |-> "x"]

json_contains(v, name) == v.t = "obj" /\ name \in DOMAIN v.o

\* request.contains(name) && request[name].is_string()
HasStringField(v, name) == json_contains(v, name) /\ v.o[name].t = "str"

NoData == [has |-> FALSE, v |-> JNull]
SomeData(v) == [has |-> TRUE, v |-> v]
ApiResult(status, message, data) ==
    [status |-> status, message |-> message, data |-> data]

file_error_to_api_result_bad_request(error) ==
    ApiResult(400, MsgInvalidFilename, NoData)
file_error_to_api_result(error) ==
    CASE error = "KeyDirectoryNotFound" ->
            ApiResult(404, MsgKeyDirectoryNotFound, NoData)
      [] error = "FileNotFound" -> ApiResult(404, MsgFileNotFound, NoData)
      [] error = "InvalidJson" -> ApiResult(400, MsgInvalidJson, NoData)
      [] error = "FileTooLarge" -> ApiResult(413, MsgFileTooLarge, NoData)
      [] error = "InvalidFilename" -> ApiResult(400, MsgInvalidFilename, NoData)
      [] error = "IoError" -> ApiResult(500, MsgIoError, NoData)
      [] error = "JsonEncodingError" ->
            ApiResult(500, MsgJsonEncodingError, NoData)
      [] OTHER -> ApiResult(500, MsgUnknown, NoData)

\* what a handler hands back: the ApiResult, the files afterwards and the
\* FileManager call it made ("none": the store was not called)
HandlerReturn(result, f, store, ret) ==
    [result |-> result, files |-> f, store |-> store, ret |-> ret]

Rejected400Generic(message, f) ==
    HandlerReturn(ApiResult(400, MsgInvalidJSON, NoData), f, "none",
                  StoreError("none", f))
Rejected400(message, f) ==
    HandlerReturn(ApiResult(400, message, NoData), f, "none",
                  StoreError("none", f))

handle_put(d, f, request_body, io) ==
    LET request == Parse(request_body) IN
    IF ~request.ok THEN Rejected400(MsgInvalidJSON, f)
    ELSE IF ~HasStringField(request.v, NameKey) THEN Rejected400(MsgBadKey, f)
    ELSE IF ~HasStringField(request.v, NameFilename)
    THEN Rejected400(MsgBadFilename, f)
    ELSE IF ~json_contains(request.v, NameData) THEN Rejected400(MsgNoData, f)
    ELSE LET key == StringOf(request.v.o[NameKey])
             filename == StringOf(request.v.o[NameFilename])
             data == request.v.o[NameData]
             result == put_json(d, f, key, filename, data, io)
         IN  IF result.err # "none"
             THEN HandlerReturn(file_error_to_api_result(result.err),
                                result.files, "put_json", result)
             ELSE HandlerReturn(ApiResult(200, MsgSuccess, NoData),
                                result.files, "put_json", result)

handle_get(d, f, request_body, io) ==
    LET request == Parse(request_body) IN
    IF ~request.ok THEN Rejected400(MsgInvalidJSON, f)
    ELSE IF ~HasStringField(request.v, NameKey) THEN Rejected400(MsgBadKey, f)
    ELSE IF ~HasStringField(request.v, NameFilename)
    THEN Rejected400(MsgBadFilename, f)
    ELSE LET key == StringOf(request.v.o[NameKey])
             filename == StringOf(request.v.o[NameFilename])
             result == get_json(d, f, key, filename, io)
             response_data == JObj(NameData :> result.val)
         IN  IF result.err # "none"
             THEN HandlerReturn(file_error_to_api_result(result.err),
                                result.files, "get_json", result)
             ELSE HandlerReturn(ApiResult(200, MsgSuccess, SomeData(response_data)),
                                result.files, "get_json", result)

\* the listing as a JSON array of strings
RECURSIVE NamesArray(_)
NamesArray(list) ==
    IF list = <<>> THEN <<>>
    ELSE <<JStr(Head(list), 0)>> \o NamesArray(Tail(list))

handle_list(d, f, request_body, io) ==
    LET request == Parse(request_body) IN
    IF ~request.ok THEN Rejected400(MsgInvalidJSON, f)
    ELSE IF ~HasStringField(request.v, NameKey) THEN Rejected400(MsgBadKey, f)
    ELSE LET key == StringOf(request.v.o[NameKey])
             result == list_files(d, f, key, io)
             response_data == JObj(NameFiles :> JArr(NamesArray(result.list)))
         IN  IF result.err # "none"
             THEN HandlerReturn(file_error_to_api_result(result.err),
                                result.files, "list_files", result)
             ELSE HandlerReturn(ApiResult(200, MsgSuccess, SomeData(response_data)),
                                result.files, "list_files", result)

(***************************************************************************)
(* DataServer: send_response and the onData / onAborted callbacks.         *)
(***************************************************************************)
status_to_string(status) ==
    CASE status = 200 -> "200 OK"
      [] status = 400 -> "400 Bad Request"
      [] status = 404 -> "404 Not Found"
      [] status = 413 -> "413 Payload Too Large"
      [] status = 500 -> "500 Internal Server Error"
      [] OTHER -> "500 Internal Server Error"

\* basic_json::merge_patch (RFC 7386): a null member of the patch removes
\* the member from the target
RECURSIVE merge_patch(_, _)
merge_patch(target, apply_patch) ==
    IF apply_patch.t # "obj" THEN apply_patch
    ELSE LET base == IF target.t = "obj" THEN target.o ELSE <<>>
             patch == apply_patch.o
             erased == {k \in DOMAIN patch : patch[k].t = "null"}
             merged == DOMAIN patch \ erased
         IN  JObj([k \in (DOMAIN base \ erased) \cup merged |->
                     IF k \in merged
                     THEN merge_patch(IF k \in DOMAIN base THEN base[k] ELSE JNull,
                                      patch[k])
                     ELSE base[k]])

\* a response written to the transport: writeStatus and end
Response(status, body) == [status |-> status, body |-> body]

send_response_error_envelope(result) ==
    Response(status_to_string(result.status),
             Dump(JObj(NameError :> JStr(result.message, 0))))
send_response(result) ==
    LET with_status == JObj(NameStatus :> JStr(result.message, 0))
        response_json == IF result.data.has
                         THEN merge_patch(with_status, result.data.v)
                         ELSE with_status
    IN  Response(status_to_string(result.status), Dump(response_json))

\* the response of the onData callbacks to a body over MAX_REQUEST_SIZE
TooLargeResponse ==
    Response("413 Payload Too Large", Dump(JObj(NameError :> JStr(MsgTooLarge, 0))))

BodyTooLargeOffByOne(body_buffer) == TextSize(body_buffer) >= MAX_REQUEST_SIZE
\* body_buffer->size() > MAX_REQUEST_SIZE
BodyTooLarge(body_buffer) == TextSize(body_buffer) > MAX_REQUEST_SIZE

Routes == {"/api/put", "/api/get", "/api/list"}

\* the ApiHandler operation the route's onData callback invokes
RouteHandler(route) ==
    CASE route = "/api/put" -> "handle_put"
      [] route = "/api/get" -> "handle_get"
      [] OTHER -> "handle_list"

Invoke(handler, d, f, request_body, io) ==
    CASE handler = "handle_put" -> handle_put(d, f, request_body, io)
      [] handler = "handle_get" -> handle_get(d, f, request_body, io)
      [] OTHER -> handle_list(d, f, request_body, io)

\* the request after app.post's callback ran: an empty body_buffer, the
\* callbacks registered.  body, pending (the part of the body the transport
\* has not delivered yet), responses, calls and rejected_at (the buffer size
\* at the first 413, -1 before) are the history of the request.
NewRequest(route, body) ==
    [phase |-> "open", route |-> route, body |-> body, pending |-> body,
     body_buffer |-> <<>>, responses |-> <<>>, calls |-> <<>>,
     rejected_at |-> -1]

\* the request after the handler returned ret and its Outcome was sent
Completed(r, f, handler, buffer, ret) ==
    [req |-> [r EXCEPT
                !.responses = Append(r.responses, send_response(ret.result)),
                !.calls = Append(r.calls,
                                 [handler |-> handler, body |-> buffer,
                                  result |-> ret.result, store |-> ret.store,
                                  ret |-> [ret.ret EXCEPT !.files = <<>>],
                                  changed |-> ret.files # f])],
     files |-> ret.files]

\* the request after the 413 response was written
RejectedTooLarge(r, f, buffer) ==
    [req |-> [r EXCEPT
                !.responses = Append(r.responses, TooLargeResponse),
                !.rejected_at = IF r.rejected_at < 0 THEN TextSize(buffer)
                                ELSE r.rejected_at],
     files |-> f]

\* the request after body_buffer->append(chunk)
Appended(r, chunk, is_last) ==
    [r EXCEPT !.body_buffer = r.body_buffer \o chunk,
              !.pending = SubSeq(r.pending, Len(chunk) + 1, Len(r.pending)),
              !.phase = IF is_last THEN "ended" ELSE "open"]

AfterAppendEager(r, d, f, is_last, io) ==
    IF BodyTooLarge(r.body_buffer) THEN RejectedTooLarge(r, f, r.body_buffer)
    ELSE Completed(r, f, RouteHandler(r.route), r.body_buffer,
                   Invoke(RouteHandler(r.route), d, f, r.body_buffer, io))
\* the rest of the onData callback, after the append
AfterAppend(r, d, f, is_last, io) ==
    IF BodyTooLarge(r.body_buffer) THEN RejectedTooLarge(r, f, r.body_buffer)
    ELSE IF is_last
    THEN Completed(r, f, RouteHandler(r.route), r.body_buffer,
                   Invoke(RouteHandler(r.route), d, f, r.body_buffer, io))
    ELSE [req |-> r, files |-> f]

\* the onData callback on `chunk': the request and the files afterwards
OnDataStep(r, d, f, chunk, is_last, io) ==
    AfterAppend(Appended(r, chunk, is_last), d, f, is_last, io)

(***************************************************************************)
(* Inputs.                                                                 *)
(***************************************************************************)
KeyK == <<"k">>
KeyM == <<"m">>
KeyN == <<"n">>
\* keys of the calls: the directory of "k" exists, that of "n" does not; the
\* directory of "m" exists too and is only read
Keys == {KeyK, KeyN, <<>>}
ReadKeys == Keys \cup {KeyM}

\* characters of the raw filenames enumerated for sanitize_filename
NameChars == {"a", ".", "/", "\\", "NUL", "!", "_", "-"}
RawNames == StringsUpTo(NameChars, MaxNameLen)

\* raw filenames given to the store
StoreNames ==
    { <<"a">>, <<"b">>, <<"c">>, <<"d">>, <<"a", ".">>,
      <<".", ".", "/", "a">>, <<"!", "!", "!">>, <<>> }

\* a string of n 'x' characters
Filler(n) == JStr(<<>>, n)

SmallDoc ==
    JObj((<<"b">> :> JNull) @@
         (<<"a">> :> JArr(<<JBool(TRUE), JStr(<<"\\">>, 0), JFloat(100)>>)))

\* documents given to the store: the last two dump to exactly
\* MAX_JSON_SIZE_BYTES and to one byte more
Docs ==
    { SmallDoc, Filler(MAX_JSON_SIZE_BYTES - 2), Filler(MAX_JSON_SIZE_BYTES - 1) }

(***************************************************************************)
(* Initial filesystem: the data directory with the key directories "k"     *)
(* (no file yet) and "m" (holding files written by others); each holds a   *)
(* directory named d.json.                                                 *)
(***************************************************************************)
DataNode == Append(Cwd, DEFAULT_DATA_DIR)
InitDirs ==
    { <<>>, Cwd, DataNode, Append(DataNode, KeyK), Append(DataNode, KeyM),
      Append(Append(DataNode, KeyM), <<"d">> \o JSON_EXTENSION),
      Append(Append(DataNode, KeyK), <<"d">> \o JSON_EXTENSION) }
Name_big == <<"b", "i", "g">>
Name_bad == <<"b", "a", "d">>
Name_x == <<"x">>
\* "xx...x", one byte over MAX_JSON_SIZE_BYTES
BigContent == <<StrTok(<<>>, MAX_JSON_SIZE_BYTES - 1)>>
\* {"xx...x" without its end, over MAX_JSON_SIZE_BYTES
BadContent == <<Punct("{"), StrTok(<<>>, MAX_JSON_SIZE_BYTES)>>
InitFiles ==
    (Append(Append(DataNode, KeyM), <<"t">>) :> <<Word("null")>>) @@
    (Append(Append(DataNode, KeyM), <<"e">> \o JSON_EXTENSION) :> <<Word("true")>>) @@
    (Append(Append(DataNode, KeyM), Name_big \o JSON_EXTENSION) :> BigContent) @@
    (Append(Append(DataNode, KeyM), Name_bad \o JSON_EXTENSION) :> BadContent) @@
    (Append(Append(DataNode, KeyM), Name_x \o JSON_EXTENSION) :> <<Punct("{")>>)

NoOp == [name |-> "none", err |-> "none"]
NoSan ==
    [key |-> <<>>, filename |-> <<>>, done |-> FALSE, sanitized |-> <<>>,
     path |-> <<>>]
NoReq == [phase |-> "idle"]

(***************************************************************************)
(* SpecSan: the filename resolution of put_json and get_json, applied to   *)
(* every raw filename up to MaxNameLen, for the keys of the store and the  *)
(* keys "..", "." and "k/d.json", which the FileManager takes as they are. *)
(***************************************************************************)
InitSan ==
    /\ dirs = InitDirs
    /\ files = InitFiles
    /\ op = NoOp
    /\ lastput = <<>>
    /\ san \in {[NoSan EXCEPT !.key = key, !.filename = filename] :
                    key \in Keys \cup {<<".", ".">>, <<".">>,
                                       KeyK \o <<"/">> \o <<"d">>
                                           \o JSON_EXTENSION},
                    filename \in RawNames}
    /\ req = NoReq

ResolveName ==
    /\ ~san.done
    /\ san' = [san EXCEPT !.done = TRUE,
                          !.sanitized = sanitize_filename(san.filename),
                          !.path = ResolvedFilePath(san.key, san.filename)]
    /\ UNCHANGED <<dirs, files, op, lastput, req>>

NextSan == ResolveName

SpecSan == InitSan /\ [][NextSan]_vars

(***************************************************************************)
(* SpecStore: calls of the FileManager.  `op' keeps the name and the       *)
(* outcome of the last call.                                               *)
(***************************************************************************)
InitStore ==
    /\ dirs = InitDirs
    /\ files = InitFiles
    /\ op = NoOp
    /\ lastput = <<>>
    /\ san = NoSan
    /\ req = NoReq

\* the history after a put_json call that returned ret
LastPutAfter(lp, d, key, filename, data, ret) ==
    IF ret.wrote = NoPath THEN lp
    ELSE LET node == Resolve(d, ret.wrote).node IN
         IF ret.err = "none"
         THEN [x \in DOMAIN lp \cup {node} |->
                 IF x = node
                 THEN [key |-> key, filename |-> filename, data |-> data]
                 ELSE lp[x]]
         ELSE [x \in DOMAIN lp \ {node} |-> lp[x]]

\* the put_json call that returned ret wrote the file that the last
\* successful write to it wrote, with the same arguments
PutAgain(lp, d, key, filename, data, ret) ==
    /\ ret.wrote # NoPath
    /\ Resolve(d, ret.wrote).node \in DOMAIN lp
    /\ lp[Resolve(d, ret.wrote).node] =
          [key |-> key, filename |-> filename, data |-> data]

\* the state after a put_json call that returned ret
PutReturned(key, filename, data, ret) ==
    /\ Cardinality(DOMAIN ret.files) <= Cardinality(DOMAIN InitFiles) + MaxFiles
    /\ files' = ret.files
    /\ op' = [name |-> "put", err |-> ret.err,
              again |-> PutAgain(lastput, dirs, key, filename, data, ret)]
    /\ lastput' = LastPutAfter(lastput, dirs, key, filename, data, ret)
    /\ UNCHANGED <<dirs, san, req>>

Put(key, filename, data, io) ==
    PutReturned(key, filename, data,
                put_json(dirs, files, key, filename, data, io))

Get(key, filename, io) ==
    /\ op' = [name |-> "get",
              err |-> get_json(dirs, files, key, filename, io).err]
    /\ UNCHANGED <<dirs, files, lastput, san, req>>

List(key, io) ==
    /\ op' = [name |-> "list", err |-> list_files(dirs, files, key, io).err]
    /\ UNCHANGED <<dirs, files, lastput, san, req>>

PutIo == {"ok", "open_fails", "write_fails"}
GetIo == {"ok", "open_fails"}
ListIo == {"ok", "iter_fails"}

NextStore ==
    \/ \E key \in Keys, filename \in StoreNames, data \in Docs, io \in PutIo :
            Put(key, filename, data, io)
    \/ \E key \in ReadKeys, filename \in StoreNames, io \in GetIo :
            Get(key, filename, io)
    \/ \E key \in ReadKeys, io \in ListIo : List(key, io)

SpecStore == InitStore /\ [][NextStore]_vars

(***************************************************************************)
(* SpecServer: DataServer serving one request after another.  The          *)
(* transport delivers the body of a request in chunks, in order, the last  *)
(* one flagged is_last, or reports the request aborted.                    *)
(* The callbacks stay registered after a response was written, so the      *)
(* transport goes on delivering the chunks the client still sends.         *)
(***************************************************************************)
Name_a == <<"a">>
Name_b == <<"b">>
Name_traversal == <<".", ".", "/", "a">>
Name_punct == <<"!", "!", "!">>

PutBody(key, filename, data_text) ==
    <<Punct("{"), StrTok(NameKey, 0), Punct(":"), StrTok(key, 0), Punct(","),
      StrTok(NameFilename, 0), Punct(":"), StrTok(filename, 0), Punct(","),
      StrTok(NameData, 0), Punct(":")>> \o data_text \o <<Punct("}")>>

GetBody(key, filename) ==
    <<Punct("{"), StrTok(NameKey, 0), Punct(":"), StrTok(key, 0), Punct(","),
      StrTok(NameFilename, 0), Punct(":"), StrTok(filename, 0), Punct("}")>>

ListBody(key) ==
    <<Punct("{"), StrTok(NameKey, 0), Punct(":"), StrTok(key, 0), Punct("}")>>

\* {"b":null,"a":[1e2]}
SmallDocText ==
    <<Punct("{"), StrTok(<<"b">>, 0), Punct(":"), Word("null"), Punct(","),
      StrTok(<<"a">>, 0), Punct(":"), Punct("["), NumTok("1e2"), Punct("]"),
      Punct("}")>>

\* a put whose body is exactly MAX_REQUEST_SIZE bytes
ExactBody ==
    LET empty == PutBody(KeyK, Name_traversal, <<StrTok(<<>>, 0)>>)
    IN  PutBody(KeyK, Name_traversal,
                <<StrTok(<<>>, MAX_REQUEST_SIZE - TextSize(empty))>>)

\* ["x"*half,"x"*n]
TwoStrings(half, n) ==
    <<Punct("["), StrTok(<<>>, half), Punct(","), StrTok(<<>>, n), Punct("]")>>

\* a put whose body is `excess' bytes over MAX_REQUEST_SIZE: its data is an
\* array of two long strings
OverBody(excess) ==
    LET half == MAX_REQUEST_SIZE \div 2
        empty == PutBody(KeyK, Name_a, TwoStrings(half, 0))
    IN  PutBody(KeyK, Name_a,
                TwoStrings(half, MAX_REQUEST_SIZE + excess - TextSize(empty)))

Bodies ==
    { PutBody(KeyK, Name_a, SmallDocText),
      PutBody(KeyK, Name_b, <<Word("null")>>),
      PutBody(KeyN, Name_a, <<NumTok("1")>>),
      ExactBody, OverBody(1), OverBody(2),
      GetBody(KeyK, Name_a), GetBody(KeyK, Name_b),
      GetBody(KeyK, Name_punct), GetBody(KeyN, Name_a),
      PutBody(KeyK, Name_punct, <<NumTok("1")>>),
      ListBody(KeyK), ListBody(KeyN),
      <<Punct("{")>>, <<>> }

IoOutcomes == {"ok", "open_fails", "write_fails", "iter_fails"}

InitServer ==
    /\ dirs = InitDirs
    /\ files = InitFiles
    /\ op = NoOp
    /\ lastput = <<>>
    /\ san = NoSan
    /\ req = NoReq

Methods == {"GET", "POST", "PUT", "DELETE"}
Paths == Routes \cup {"/", "/api/other"}

\* the callback the router runs for a request: the three POST routes, the
\* catch-all registered with app.get("/*"), or none
RouteOf(method, path) ==
    IF method = "POST" /\ path \in Routes THEN "post"
    ELSE IF method = "GET" THEN "catch_all"
    ELSE "none"

\* the response of the catch-all route
NotFoundResponse ==
    Response("404 Not Found",
             Dump(JObj(NameError :> JStr(<<"N", "o", "t", " ", "f", "o", "u",
                                          "n", "d">>, 0))))

\* a request that reached none of the three POST routes, after the router
\* handled it: no callback of this program runs when none is registered
UnroutedRequest(method, path) ==
    [phase |-> "unrouted", method |-> method, route |-> path, body |-> <<>>,
     pending |-> <<>>, body_buffer |-> <<>>,
     responses |-> IF RouteOf(method, path) = "catch_all"
                   THEN <<NotFoundResponse>> ELSE <<>>,
     calls |-> <<>>, rejected_at |-> -1]

\* app.post(route, ...): a request arrives once the previous one is over
Start(route, body) ==
    /\ req.phase \in {"idle", "ended", "aborted", "unrouted"}
    /\ req' = NewRequest(route, body)
    /\ UNCHANGED <<dirs, files, op, lastput, san>>

Served(step) == req' = step.req /\ files' = step.files

\* response->onData: the next n tokens of the body arrive
OnData(n, is_last, io) ==
    /\ req.phase = "open"
    /\ n \in 0..Len(req.pending)
    /\ IF is_last THEN n = Len(req.pending) ELSE n >= 1
    /\ Served(OnDataStep(req, dirs, files, SubSeq(req.pending, 1, n),
                         is_last, io))
    /\ UNCHANGED <<dirs, op, lastput, san>>

\* response->onAborted: only logs
OnAborted ==
    /\ req.phase = "open"
    /\ req' = [req EXCEPT !.phase = "aborted"]
    /\ UNCHANGED <<dirs, files, op, lastput, san>>

\* a request for another method or path arrives
Unrouted(method, path) ==
    /\ req.phase \in {"idle", "ended", "aborted", "unrouted"}
    /\ RouteOf(method, path) # "post"
    /\ req' = UnroutedRequest(method, path)
    /\ UNCHANGED <<dirs, files, op, lastput, san>>

NextServer ==
    \/ \E route \in Routes, body \in Bodies : Start(route, body)
    \/ \E method \in Methods, path \in Paths : Unrouted(method, path)
    \/ \E n \in 0..30, is_last \in BOOLEAN, io \in IoOutcomes :
            OnData(n, is_last, io)
    \/ OnAborted

SpecServer == InitServer /\ [][NextServer]_vars

(***************************************************************************)
(* Properties of the filename resolution (SpecSan).                        *)
(***************************************************************************)
\* the part of a resolved path after "<data_directory>/<key>/"
OnDiskName(key, path) ==
    SubSeq(path, Len(get_key_directory(key)) + 2, Len(path))

Contains(s, c) == \E i \in 1..Len(s) : s[i] = c

\* C3: for every raw filename, the path put_json and get_json resolve is
\* "<data_directory>/<key>/<name>" where <name> holds no '/', no '\', no NUL
\* and is not "", "." or "..": a direct child of the key's directory.
C3_DirectChild ==
    san.done =>
        LET key_dir == get_key_directory(san.key)
            name == OnDiskName(san.key, san.path)
        IN  /\ Len(san.path) > Len(key_dir) + 1
            /\ SubSeq(san.path, 1, Len(key_dir) + 1) = key_dir \o <<"/">>
            /\ ~Contains(name, "/") /\ ~Contains(name, "\\")
            /\ ~Contains(name, "NUL")
            /\ name \notin {<<>>, <<".">>, <<".", ".">>}
            /\ key_directory_exists(dirs, files, san.key) =>
                  /\ Resolve(dirs, san.path).ok
                  /\ Parent(Resolve(dirs, san.path).node)
                        = Resolve(dirs, key_dir).node

\* a traversal filename has been resolved, to a file of the key's directory
C3_Witness ==
    /\ san.done
    /\ san.key = KeyK
    /\ san.filename = <<".", ".", "/", "a">>
    /\ Resolve(dirs, san.path).node
          = Append(Append(DataNode, KeyK), <<"_", "_", "a">> \o JSON_EXTENSION)

(***************************************************************************)
(* Properties of the store (SpecStore).                                    *)
(***************************************************************************)
\* C1: when the last write to a document was a successful
\* put_json(key, filename, data), get_json(key, filename) returns data.
C1_RoundTrip ==
    \A node \in DOMAIN lastput :
        LET lp == lastput[node]
            ret == get_json(dirs, files, lp.key, lp.filename, "ok")
        IN  ret.err = "none" /\ ret.val = lp.data

\* a document of exactly MAX_JSON_SIZE_BYTES was stored under a filename that
\* sanitization changes, and a get_json succeeded
C1_Witness ==
    /\ op = [name |-> "get", err |-> "none"]
    /\ \E node \in DOMAIN lastput :
          /\ lastput[node].data = Filler(MAX_JSON_SIZE_BYTES - 2)
          /\ lastput[node].filename = <<".", ".", "/", "a">>
          /\ TextSize(files[node]) = MAX_JSON_SIZE_BYTES

KNode == Append(DataNode, KeyK)
FilesUnderK == {n \in DOMAIN files : Parent(n) = KNode}

\* C8: when every file of the (initially empty) directory of key "k" was
\* stored by a successful put, list_files("k") is exactly the set of
\* sanitized filename + ".json" of those puts, each once, ascending; and the
\* listing of any key holds only names ending in ".json" of regular files of
\* that key's directory.
C8_ListExact ==
    /\ FilesUnderK \subseteq DOMAIN lastput =>
        LET ret == list_files(dirs, files, KeyK, "ok")
            names == {sanitize_filename(lastput[n].filename) \o JSON_EXTENSION :
                        n \in {x \in DOMAIN lastput : lastput[x].key = KeyK}}
        IN  /\ ret.err = "none"
            /\ {ret.list[i] : i \in 1..Len(ret.list)} = names
            /\ \A i \in 1..Len(ret.list) - 1 :
                    StrLess(ret.list[i], ret.list[i + 1])
    /\ \A key \in {KeyK, KeyM} :
        LET ret == list_files(dirs, files, key, "ok") IN
        \A i \in 1..Len(ret.list) :
            /\ HasSuffix(ret.list[i], JSON_EXTENSION)
            /\ Append(Append(DataNode, key), ret.list[i]) \in DOMAIN files

\* "b", "a" and "c" were put under "k" and a list_files succeeded
C8_Witness ==
    /\ op = [name |-> "list", err |-> "none"]
    /\ FilesUnderK \subseteq DOMAIN lastput
    /\ {lastput[n].filename : n \in FilesUnderK} = {<<"a">>, <<"b">>, <<"c">>}
    /\ list_files(dirs, files, KeyK, "ok").list =
          << <<"a">> \o JSON_EXTENSION, <<"b">> \o JSON_EXTENSION,
             <<"c">> \o JSON_EXTENSION >>

(***************************************************************************)
(* Properties of the server (SpecServer).                                  *)
(***************************************************************************)
Served1 == req.phase # "idle" /\ Len(req.calls) = 1
BufferSize == TextSize(req.body_buffer)

\* {"status":"<message>"}
StatusText(message) ==
    <<Punct("{"), StrTok(NameStatus, 0), Punct(":"), StrTok(message, 0),
      Punct("}")>>

\* {"error":"Request body too large"}
TooLargeText ==
    <<Punct("{"), StrTok(NameError, 0), Punct(":"), StrTok(MsgTooLarge, 0),
      Punct("}")>>

IsTooLarge413(response) ==
    response.status = "413 Payload Too Large" /\ response.body = TooLargeText

\* the request names a non-empty string `name'
NamesString(request, name) ==
    /\ request.ok
    /\ HasStringField(request.v, name)
    /\ StringOf(request.v.o[name]) # <<>>

\* the request has every field its handler requires, key and filename
\* non-empty
WellFormed(handler, request) ==
    /\ NamesString(request, NameKey)
    /\ handler \in {"handle_put", "handle_get"} =>
            NamesString(request, NameFilename)
    /\ handler = "handle_put" => json_contains(request.v, NameData)

\* C2: the response to a successful /api/get is 200 with a body equal to
\* {"status":"success","data":<the stored document>}, whatever the document.
C2_GetReturnsDocument ==
    (/\ Served1
     /\ req.calls[1].store = "get_json"
     /\ req.calls[1].ret.err = "none") =>
        /\ Len(req.responses) = 1
        /\ req.responses[1].status = "200 OK"
        /\ Parse(req.responses[1].body).ok
        /\ Parse(req.responses[1].body).v =
              JObj((NameStatus :> JStr(MsgSuccess, 0)) @@
                   (NameData :> req.calls[1].ret.val))

\* C4: while the accumulated body is over 1048576 bytes no handler has been
\* invoked for the request and every response written is the 413
\* {"error":"Request body too large"}, at least one; while it is not over, no
\* such response is written, and a body of exactly 1048576 bytes reaches the
\* handler at its end.
C4_RejectedBeforeHandler ==
    req.phase # "idle" =>
        /\ BufferSize > MAX_REQUEST_SIZE =>
              /\ req.calls = <<>>
              /\ Len(req.responses) >= 1
              /\ \A i \in 1..Len(req.responses) : IsTooLarge413(req.responses[i])
        /\ BufferSize <= MAX_REQUEST_SIZE =>
              \A i \in 1..Len(req.responses) : ~IsTooLarge413(req.responses[i])
        /\ (BufferSize = MAX_REQUEST_SIZE /\ req.phase = "ended") =>
              Len(req.calls) = 1

\* a body of 1048577 bytes whose overflowing chunk was also its last
C4_Witness ==
    /\ req.phase = "ended"
    /\ BufferSize = MAX_REQUEST_SIZE + 1
    /\ req.calls = <<>>
    /\ Len(req.responses) = 1
    /\ IsTooLarge413(req.responses[1])

\* C5: at most one response is written for a request.
C5_AtMostOneResponse ==
    req.phase # "idle" => Len(req.responses) <= 1

\* C6: after the 413 the buffer keeps the size it had when the request was
\* rejected.
C6_BufferFrozenAfterReject ==
    (req.phase # "idle" /\ req.rejected_at >= 0) =>
        BufferSize = req.rejected_at

\* the response envelope of an Outcome: its message as "status" next to the
\* members of its payload
Envelope(result) ==
    IF result.data.has
    THEN JObj((NameStatus :> JStr(result.message, 0)) @@ result.data.v.o)
    ELSE JObj(NameStatus :> JStr(result.message, 0))

\* C7: at the end of a body that never exceeded the cap the handler of the
\* route has been invoked exactly once, with the whole body, and the one
\* response written is the Outcome it returned; before the end nothing is
\* invoked or written.
C7_HandlerOnceOutcomeWritten ==
    /\ (req.phase = "open" /\ BufferSize <= MAX_REQUEST_SIZE) =>
            req.calls = <<>> /\ req.responses = <<>>
    /\ (req.phase = "ended" /\ BufferSize <= MAX_REQUEST_SIZE) =>
            /\ Len(req.calls) = 1
            /\ req.calls[1].handler =
                  (CASE req.route = "/api/put" -> "handle_put"
                     [] req.route = "/api/get" -> "handle_get"
                     [] req.route = "/api/list" -> "handle_list")
            /\ req.calls[1].body = req.body
            /\ Len(req.responses) = 1
            /\ req.responses[1].status =
                  status_to_string(req.calls[1].result.status)
            /\ Parse(req.responses[1].body).ok
            /\ Parse(req.responses[1].body).v = Envelope(req.calls[1].result)

C10_InvalidFilenameBoth ==
    (/\ Served1
     /\ req.calls[1].handler \in {"handle_put", "handle_get"}
     /\ WellFormed(req.calls[1].handler, Parse(req.body))
     /\ fs_is_directory(dirs,
            get_key_directory(StringOf(Parse(req.body).v.o[NameKey])))
     /\ sanitize_filename(StringOf(Parse(req.body).v.o[NameFilename])) = <<>>) =>
        /\ req.responses =
              <<Response("400 Bad Request", StatusText(MsgInvalidFilename))>>
        /\ req.calls[1].ret.err = "InvalidFilename"
        /\ req.calls[1].ret.probed = NoPath
        /\ req.calls[1].ret.opened = NoPath
        /\ req.calls[1].ret.wrote = NoPath

(***************************************************************************)
(* Further properties of the store (SpecStore).                            *)
(***************************************************************************)
\* C12: a successful put_json that repeats the arguments of the last
\* successful write to its file leaves every file as it was, and with it the
\* result of every get_json and every list_files.
C12_Idempotent ==
    [][(op'.name = "put" /\ op'.err = "none" /\ op'.again) =>
            /\ files' = files
            /\ \A key \in ReadKeys :
                    /\ list_files(dirs, files', key, "ok")
                          = list_files(dirs, files, key, "ok")
                    /\ \A filename \in StoreNames :
                          get_json(dirs, files', key, filename, "ok")
                             = get_json(dirs, files, key, filename, "ok")]_vars

\* the document stored as "a" under "k" has been put again, successfully
C12_Witness ==
    /\ op.name = "put" /\ op.err = "none" /\ op.again
    /\ files[Append(KNode, <<"a">> \o JSON_EXTENSION)] = Dump(SmallDoc)

NotFoundText ==
    <<Punct("{"), StrTok(NameError, 0), Punct(":"),
      StrTok(<<"N", "o", "t", " ", "f", "o", "u", "n", "d">>, 0), Punct("}")>>

\* C15: a request of any method for any path other than POST /api/put,
\* POST /api/get and POST /api/list is answered 404 {"error":"Not found"}
\* and reaches neither the body buffer nor a handler.
C15_UnmatchedNotFound ==
    req.phase = "unrouted" =>
        /\ req.responses = <<Response("404 Not Found", NotFoundText)>>
        /\ req.calls = <<>>
        /\ req.body_buffer = <<>>

\* C17: a request reported aborted before the end of its body and before
\* any rejection has no response and no handler call, whatever it had
\* accumulated, and no step of a request that is still accumulating, its
\* abort included, changes a file.
C17_AbortedWritesNothing ==
    /\ []((req.phase = "aborted" /\ req.rejected_at < 0) =>
              req.responses = <<>> /\ req.calls = <<>>)
    /\ [][(req.phase = "open" /\ req'.phase \in {"open", "aborted"}) =>
              files' = files]_vars

\* a put was aborted with a part of its body accumulated
C17_Witness ==
    /\ req.phase = "aborted"
    /\ req.route = "/api/put"
    /\ req.rejected_at < 0
    /\ req.body_buffer # <<>> /\ req.pending # <<>>
    /\ req.responses = <<>>

(***************************************************************************)
(* SpecApi: DataServer serving requests whose body arrives in one chunk.   *)
(***************************************************************************)
\* {"key":<key_text>,"filename":<filename_text>,"data":1}
RawPutBody(key_text, filename_text) ==
    <<Punct("{"), StrTok(NameKey, 0), Punct(":")>> \o key_text \o
    <<Punct(","), StrTok(NameFilename, 0), Punct(":")>> \o filename_text \o
    <<Punct(","), StrTok(NameData, 0), Punct(":"), NumTok("1"), Punct("}")>>

\* {"filename":"a","data":1}
NoKeyBody ==
    <<Punct("{"), StrTok(NameFilename, 0), Punct(":"), StrTok(Name_a, 0),
      Punct(","), StrTok(NameData, 0), Punct(":"), NumTok("1"), Punct("}")>>

ApiBodies ==
    { PutBody(KeyK, Name_a, SmallDocText),
      PutBody(KeyK, Name_b, <<Word("null")>>),
      PutBody(KeyN, Name_a, <<NumTok("1")>>),
      PutBody(KeyK, Name_punct, <<NumTok("1")>>),
      PutBody(KeyK, Name_a, <<StrTok(<<>>, MAX_JSON_SIZE_BYTES - 1)>>),
      OverBody(1),
      GetBody(KeyK, Name_a), GetBody(KeyK, Name_b), GetBody(KeyN, Name_a),
      GetBody(KeyM, Name_big), GetBody(KeyM, Name_bad), GetBody(KeyM, Name_x),
      GetBody(KeyM, <<"e">>),
      ListBody(KeyK), ListBody(KeyN), ListBody(KeyM),
      RawPutBody(<<NumTok("1")>>, <<StrTok(Name_a, 0)>>),
      RawPutBody(<<StrTok(KeyN, 0)>>, <<Word("null")>>),
      RawPutBody(<<Word("null")>>, <<Punct("["), Punct("]")>>),
      NoKeyBody,
      <<Punct("["), StrTok(NameKey, 0), Punct("]")>>,
      <<StrTok(NameKey, 0)>>, <<NumTok("1")>>, <<Word("null")>>,
      <<Punct("{"), Punct("}")>>,
      <<Punct("{")>>, <<>>,
      <<Punct("{"), StrTok(NameKey, 0), Punct(":"), StrTok(KeyK, 0),
        Punct(",")>> }

InitApi ==
    /\ dirs = InitDirs
    /\ files = InitFiles
    /\ op = NoOp
    /\ lastput = <<>>
    /\ san = NoSan
    /\ req = NoReq

\* a POST to one of the three routes whose whole body is the last chunk
Request(route, body, io) ==
    /\ Served(OnDataStep(NewRequest(route, body), dirs, files, body, TRUE, io))
    /\ UNCHANGED <<dirs, op, lastput, san>>

NextApi ==
    \E route \in Routes, body \in ApiBodies, io \in IoOutcomes :
        Request(route, body, io)

SpecApi == InitApi /\ [][NextApi]_vars

(***************************************************************************)
(* Properties of the handlers (SpecApi).                                   *)
(***************************************************************************)
\* the file a get request names, once the request is known to name one
NamedNode(request) ==
    Resolve(dirs, ResolvedFilePath(StringOf(request.v.o[NameKey]),
                                   StringOf(request.v.o[NameFilename]))).node

\* C11: a well-formed get naming an existing file whose content is over
\* 1048576 bytes and could be opened is answered
\* 413 {"status":"File exceeds maximum size (1MB)"}, the store reporting
\* FileTooLarge, whether or not the content parses.
C11_OversizedFile ==
    (/\ Served1
     /\ req.calls[1].handler = "handle_get"
     /\ WellFormed("handle_get", Parse(req.body))
     /\ NamedNode(Parse(req.body)) \in DOMAIN files
     /\ TextSize(files[NamedNode(Parse(req.body))]) > MAX_JSON_SIZE_BYTES
     /\ req.calls[1].ret.err # "IoError") =>
        /\ req.calls[1].ret.err = "FileTooLarge"
        /\ req.responses =
              <<Response("413 Payload Too Large", StatusText(MsgFileTooLarge))>>

\* a get of the oversized file that is no JSON text has been answered 413
C11_Witness ==
    /\ Served1
    /\ req.body = GetBody(KeyM, Name_bad)
    /\ req.calls[1].ret.err = "FileTooLarge"
    /\ ~Parse(files[Append(Append(DataNode, KeyM), Name_bad \o JSON_EXTENSION)]).ok
    /\ req.responses[1].status = "413 Payload Too Large"

\* the values of FileError
FileErrors ==
    { "KeyDirectoryNotFound", "FileNotFound", "InvalidJson", "FileTooLarge",
      "InvalidFilename", "IoError", "JsonEncodingError" }

\* the status line and the message the table gives for a FileError
TableStatus(error) ==
    CASE error \in {"KeyDirectoryNotFound", "FileNotFound"} -> "404 Not Found"
      [] error \in {"InvalidJson", "InvalidFilename"} -> "400 Bad Request"
      [] error = "FileTooLarge" -> "413 Payload Too Large"
      [] error \in {"IoError", "JsonEncodingError"} ->
            "500 Internal Server Error"

TableMessage(error) ==
    CASE error = "KeyDirectoryNotFound" -> MsgKeyDirectoryNotFound
      [] error = "FileNotFound" -> MsgFileNotFound
      [] error = "InvalidJson" -> MsgInvalidJson
      [] error = "FileTooLarge" -> MsgFileTooLarge
      [] error = "InvalidFilename" -> MsgInvalidFilename
      [] error = "IoError" -> MsgIoError
      [] error = "JsonEncodingError" -> MsgJsonEncodingError

TableResponse(error) ==
    Response(TableStatus(error), StatusText(TableMessage(error)))

HasErrorMember(response) ==
    /\ Parse(response.body).ok
    /\ json_contains(Parse(response.body).v, NameError)

StringMember(request, name) ==
    /\ request.v.t = "obj"
    /\ name \in DOMAIN request.v.o
    /\ request.v.o[name].t = "str"

\* the message of the first validation the request fails, in the order
\* JSON, key, filename, data; <<>> when it fails none
FirstFailure(handler, request) ==
    IF ~request.ok THEN MsgInvalidJSON
    ELSE IF ~StringMember(request, NameKey) THEN MsgBadKey
    ELSE IF handler \in {"handle_put", "handle_get"}
            /\ ~StringMember(request, NameFilename)
    THEN MsgBadFilename
    ELSE IF handler = "handle_put"
            /\ NameData \notin DOMAIN request.v.o
    THEN MsgNoData
    ELSE <<>>

Slots == 1..MaxInFlight

\* a put whose body is over half of MAX_REQUEST_SIZE
HalfBody ==
    PutBody(KeyK, Name_b, <<StrTok(<<>>, MAX_REQUEST_SIZE \div 2)>>)

\* the requests the clients send: route and body
MultiRequests ==
    { <<"/api/put", PutBody(KeyK, Name_a, <<NumTok("1")>>)>>,
      <<"/api/put", PutBody(KeyK, Name_a, <<Word("true")>>)>>,
      <<"/api/get", GetBody(KeyK, Name_a)>>,
      <<"/api/put", HalfBody>> }

InitMulti ==
    /\ dirs = InitDirs
    /\ files = InitFiles
    /\ op = NoOp
    /\ lastput = <<>>
    /\ san = NoSan
    /\ req = [i \in Slots |-> NoReq]

BufferOfShared(rs, i) ==
    IF rs[1].phase = "idle" THEN rs[i].body_buffer ELSE rs[1].body_buffer
\* the buffer the callbacks of request i append to: the std::string the
\* route's callback made for this request and the onData lambda captured
BufferOf(rs, i) == rs[i].body_buffer

\* the history after the request r was served a chunk
LastPutOf(lp, d, r) ==
    IF r.phase = "ended" /\ Len(r.calls) = 1 /\ r.calls[1].store = "put_json"
    THEN LastPutAfter(lp, d,
                      StringOf(Parse(r.body_buffer).v.o[NameKey]),
                      StringOf(Parse(r.body_buffer).v.o[NameFilename]),
                      Parse(r.body_buffer).v.o[NameData],
                      r.calls[1].ret)
    ELSE lp

ServedM(i, step) ==
    /\ req' = [req EXCEPT ![i] = step.req]
    /\ files' = step.files
    /\ lastput' = LastPutOf(lastput, dirs, step.req)
    /\ op' = IF step.req.phase = "ended"
             THEN [name |-> "completed", err |-> "none", slot |-> i]
             ELSE op

StartM(i, route, body) ==
    /\ req[i].phase \in {"idle", "ended", "aborted"}
    /\ req' = [req EXCEPT ![i] = NewRequest(route, body)]
    /\ UNCHANGED <<dirs, files, op, lastput, san>>

\* the next chunk of request i: at most MaxChunk tokens
ChunkLen(r) == IF Len(r.pending) < MaxChunk THEN Len(r.pending) ELSE MaxChunk

OnDataM(i) ==
    /\ req[i].phase = "open"
    /\ ServedM(i, OnDataStep([req[i] EXCEPT !.body_buffer = BufferOf(req, i)],
                             dirs, files,
                             SubSeq(req[i].pending, 1, ChunkLen(req[i])),
                             ChunkLen(req[i]) = Len(req[i].pending), "ok"))
    /\ UNCHANGED <<dirs, san>>

OnAbortedM(i) ==
    /\ req[i].phase = "open"
    /\ req' = [req EXCEPT ![i] = [req[i] EXCEPT !.phase = "aborted"]]
    /\ UNCHANGED <<dirs, files, op, lastput, san>>

NextMulti ==
    \E i \in Slots :
        \/ \E request \in MultiRequests : StartM(i, request[1], request[2])
        \/ OnDataM(i)
        \/ OnAbortedM(i)

SpecMulti == InitMulti /\ [][NextMulti]_vars

(***************************************************************************)
(* Properties of requests in flight together (SpecMulti).                  *)
(***************************************************************************)
\* C18: however the callbacks of the requests interleave, the buffer of a
\* request holds exactly the chunks delivered for it, in order; the body a
\* handler was given is the request's own body; and a 413 was written for it
\* exactly when its own buffer exceeded MAX_REQUEST_SIZE.
C18_OwnBuffer ==
    \A i \in Slots :
        req[i].phase # "idle" =>
            /\ req[i].body_buffer \o req[i].pending = req[i].body
            /\ \A c \in 1..Len(req[i].calls) :
                    req[i].calls[c].body = req[i].body
            /\ (\E n \in 1..Len(req[i].responses) :
                    IsTooLarge413(req[i].responses[n]))
                  <=> TextSize(req[i].body_buffer) > MAX_REQUEST_SIZE

\* two puts are in flight, each with over half of MAX_REQUEST_SIZE
\* accumulated and none answered
C18_Witness ==
    /\ \A i \in {1, 2} :
          /\ req[i].phase = "open"
          /\ req[i].body = HalfBody
          /\ TextSize(req[i].body_buffer) > MAX_REQUEST_SIZE \div 2
          /\ req[i].responses = <<>>
    /\ TextSize(req[1].body_buffer) + TextSize(req[2].body_buffer)
          > MAX_REQUEST_SIZE

\* C19: a get of a file returns the document of the put to it whose end of
\* body was processed last among the successful ones, whatever the order in
\* which the puts started and their chunks arrived.
C19_LastWriteWins ==
    \A node \in DOMAIN lastput :
        Invoke("handle_get", dirs, files,
               GetBody(lastput[node].key, lastput[node].filename),
               "ok").result
          = ApiResult(200, MsgSuccess,
                      SomeData(JObj(NameData :> lastput[node].data)))

\* two puts of different documents to "a" under "k" have both succeeded, the
\* one of connection 1 last, and its document is the one stored
C19_Witness ==
    /\ \A i \in {1, 2} :
          /\ req[i].phase = "ended"
          /\ Len(req[i].calls) = 1
          /\ req[i].calls[1].store = "put_json"
          /\ req[i].calls[1].ret.err = "none"
    /\ req[1].body = PutBody(KeyK, Name_a, <<NumTok("1")>>)
    /\ req[2].body = PutBody(KeyK, Name_a, <<Word("true")>>)
    /\ op.name = "completed" /\ op.slot = 1
    /\ files[Append(KNode, Name_a \o JSON_EXTENSION)] = <<NumTok("1")>>

\* C20: a get of a file under "k", which only puts write, reports
\* FileNotFound or returns the document of some put: it never reports
\* InvalidJson and never returns a value no put supplied, also after a put
\* that failed with IoError.  put_json opens the file itself with truncation
\* and writes into it, so a put whose write fails leaves the file cut short.
C20_NoPartialWrite ==
    \A filename \in StoreNames :
        (/\ sanitize_filename(filename) # <<>>
         /\ ~fs_is_directory(dirs, ResolvedFilePath(KeyK, filename)))
        => /\ get_json(dirs, files, KeyK, filename, "ok").err
                \in {"none", "FileNotFound"}
           /\ get_json(dirs, files, KeyK, filename, "ok").err = "none"
                => get_json(dirs, files, KeyK, filename, "ok").val \in Docs

\* the raw filename with every '.' that immediately follows another '.'
\* removed
RECURSIVE CollapseDots(_)
CollapseDots(filename) ==
    IF Len(filename) < 2 THEN filename
    ELSE IF filename[1] = "." /\ filename[2] = "."
    THEN CollapseDots(Tail(filename))
    ELSE <<filename[1]>> \o CollapseDots(Tail(filename))

\* C23: in sanitize_filename a run of consecutive dots of the raw filename
\* contributes exactly one '_': the sanitized name is the one of the filename
\* with each run of dots reduced to a single dot ("a..b" gives "a_b").  The
\* loop compares '.' with the last character of the result, which is '_'
\* after a dot, so every dot of a run is converted.
C23_DotRunsCollapse ==
    san.done => san.sanitized = sanitize_filename(CollapseDots(san.filename))

\* C22: in every state of the store and for every key (empty, with a
\* directory, without one), put_json and get_json with the empty filename
\* return the same error, InvalidFilename.  put_json looks for the key
\* directory before it looks at the filename; get_json rejects the empty
\* filename first.
C22_EmptyFilenameSame ==
    \A key \in Keys, data \in Docs :
        /\ put_json(dirs, files, key, <<>>, data, "ok").err = "InvalidFilename"
        /\ get_json(dirs, files, key, <<>>, "ok").err = "InvalidFilename"

\* the get_json of the name listed for the file at node under "k" succeeds
\* and returns the document the file holds
ReadableByListedName(d, f, n) ==
    /\ get_json(d, f, KeyK, n, "ok").err = "none"
    /\ get_json(d, f, KeyK, n, "ok").val = Parse(f[Append(KNode, n)]).v

\* C24: every name that list_files returns for "k" addresses the document it
\* names: get_json with the listed name succeeds and returns the document
\* stored in that file (files holding a complete document within the size
\* limit).  get_json sanitizes the listed name, which turns the '.' of
\* ".json" into '_', and looks for another file.
C24_ListedNamesReadable ==
    \A i \in 1..Len(list_files(dirs, files, KeyK, "ok").list) :
        (/\ Parse(files[Append(KNode,
                     list_files(dirs, files, KeyK, "ok").list[i])]).ok
         /\ ~ContentTooLarge(files[Append(KNode,
                     list_files(dirs, files, KeyK, "ok").list[i])]))
        => ReadableByListedName(dirs, files,
                                list_files(dirs, files, KeyK, "ok").list[i])

\* C25: for every key that put_json, get_json and list_files accept (not
\* empty, naming an existing directory relative to the data directory), the
\* directory enumerated is a child of the data directory and the file read
\* or written is <data_directory>/<key>/<name>.json, two levels below the
\* data directory.  The key is appended to the data directory unchanged, so
\* ".." names the directory above it.
C25_InsideDataDirectory ==
    (/\ san.done
     /\ san.key # <<>>
     /\ key_directory_exists(dirs, files, san.key))
    => /\ Parent(Resolve(dirs, get_key_directory(san.key)).node) = DataNode
       /\ san.sanitized # <<>>
            => Parent(Parent(Resolve(dirs, san.path).node)) = DataNode

\* the errors of put_json that the frame property names
FrameErrors ==
    {"KeyDirectoryNotFound", "InvalidFilename", "FileTooLarge",
     "JsonEncodingError"}

\* files f2 differ from f1 at most in the file at node
OnlyChanged(f1, f2, node) ==
    /\ DOMAIN f2 = DOMAIN f1 \cup {node}
    /\ \A x \in DOMAIN f1 \ {node} : f2[x] = f1[x]

\* C26: get_json, list_files and every put_json that fails with
\* KeyDirectoryNotFound, InvalidFilename, FileTooLarge or JsonEncodingError
\* leave every file as it was; a successful put_json changes only the file
\* at (key, sanitized filename), which then holds the document put, and
\* leaves the files of all keys otherwise unchanged.
C26_Frame ==
    [][ /\ op'.name \in {"get", "list"} => files' = files
        /\ (op'.name = "put" /\ op'.err \in FrameErrors) => files' = files
        /\ (op'.name = "put" /\ op'.err = "none") =>
              \E node \in DOMAIN lastput' :
                  /\ node = Resolve(dirs,
                                ResolvedFilePath(lastput'[node].key,
                                                 lastput'[node].filename)).node
                  /\ files'[node] = Dump(lastput'[node].data)
                  /\ OnlyChanged(files, files', node)
      ]_vars

\* a put_json has just failed with FileTooLarge while "k" holds the complete
\* documents of earlier puts
C26_Witness ==
    /\ op.name = "put"
    /\ op.err = "FileTooLarge"
    /\ Cardinality(FilesUnderK) >= 2
    /\ \A n \in FilesUnderK : n \in DOMAIN lastput /\ files[n] = Dump(lastput[n].data)

(***************************************************************************)
(* SpecFault: requests whose whole body is one chunk, while the status of  *)
(* a path may fail to be determined ("stat_fails": a path component that   *)
(* cannot be searched, a name longer than the filesystem allows, an I/O    *)
(* error).  std::filesystem::exists and is_directory are called without    *)
(* an error_code, so they throw filesystem_error then, inside the noexcept *)
(* functions of the FileManager: std::terminate is called.  `op' is        *)
(* "terminated" once the process ended.                                    *)
(***************************************************************************)
FaultIo == IoOutcomes \cup {"stat_fails"}

\* the FileManager function a handler calls
StoreOf(handler) ==
    CASE handler = "handle_put" -> "put_json"
      [] handler = "handle_get" -> "get_json"
      [] OTHER -> "list_files"

\* whether the FileManager function gets to key_directory_exists: put_json
\* and list_files after key.empty(), get_json after key.empty() ||
\* filename.empty()
ReachesStat(store, request) ==
    /\ StringOf(request.o[NameKey]) # <<>>
    /\ store = "get_json" => StringOf(request.o[NameFilename]) # <<>>

\* the call of the handler on request_body ends in std::terminate
Terminates(handler, d, f, request_body, io) ==
    /\ io = "stat_fails"
    /\ Invoke(handler, d, f, request_body, "ok").store # "none"
    /\ ReachesStat(StoreOf(handler), Parse(request_body).v)

Terminated == [name |-> "terminated", err |-> "none"]

InitFault ==
    /\ dirs = InitDirs
    /\ files = InitFiles
    /\ op = NoOp
    /\ lastput = <<>>
    /\ san = NoSan
    /\ req = NoReq

\* a POST to one of the three routes whose whole body is the last chunk
RequestF(route, body, io) ==
    /\ op # Terminated
    /\ IF ~BodyTooLarge(body)
          /\ Terminates(RouteHandler(route), dirs, files, body, io)
       THEN /\ req' = [NewRequest(route, body) EXCEPT !.body_buffer = body,
                                                      !.pending = <<>>]
            /\ op' = Terminated
            /\ UNCHANGED files
       ELSE /\ Served(OnDataStep(NewRequest(route, body), dirs, files, body,
                                 TRUE, io))
            /\ UNCHANGED op
    /\ UNCHANGED <<dirs, lastput, san>>

NextFault ==
    \E route \in Routes, body \in ApiBodies, io \in FaultIo :
        RequestF(route, body, io)

SpecFault == InitFault /\ [][NextFault]_vars

\* C21: every call of handle_put, handle_get and handle_list, for every
\* request body and every condition of the filesystem (missing directory,
\* failing stat, open or write failure), returns an ApiResult whose status is
\* 200, 400, 404, 413 or 500, and no failure ends the process.
C21_NoFailureEscapes ==
    /\ op # Terminated
    /\ req.phase # "idle" =>
          \A i \in 1..Len(req.calls) :
              req.calls[i].result.status \in {200, 400, 404, 413, 500}

====
